---- MODULE Spec2Model ----
(***************************************************************************)
(* A model of dwrote's custom text analysis source                         *)
(* (src/src/text_analysis_source_impl.rs): the construction of a           *)
(* CustomTextAnalysisSourceImpl and the five IDWriteTextAnalysisSource     *)
(* callbacks the engine pulls data through.                                *)
(*                                                                         *)
(*   Spec      construction, then the five queries, serialised             *)
(*   SpecRace  construction, then GetLocaleName run by two threads, each   *)
(*             call split at its reads and writes of this.locale_buf       *)
(*   SpecRef   construction, then AddRef / Release by several holders      *)
(***************************************************************************)
EXTENDS Integers, Sequences, FiniteSets

\* ------------------------------------------------------------- bounds
\* The largest UINT32 / u32 of the model: the program's is 2^32 - 1, which
\* TLC's integers cannot hold; u32 arithmetic is taken modulo U32_MAX + 1 and
\* every formula below is stated over U32_MAX.
U32_MAX == 3
\* How far past U32_MAX a usize text length may go.
UsizeExtra == 2
\* Heap addresses the allocator may hand out for locale buffers.
NumAddrs == 3
\* Cap on the number substitution's foreign reference count.
MaxNsRefs == 3
\* Cap on the source's own reference count, and the number of holders.
MaxRefs == 4
NumHolders == 2

\* ------------------------------------------------------------- inputs
UINT32 == 0 .. U32_MAX
UsizeLens == 0 .. (U32_MAX + UsizeExtra)
Policies == {1, 2}
Addrs == 1 .. NumAddrs
Holders == 1 .. NumHolders
Threads == {1, 2}

\* A text of n UTF-16 code units ('a', 'b', 'c' in rotation).
TextOf(n) == [i \in 1 .. n |-> 97 + ((i + n) % 3)]

\* Locale names the policies answer with, as sequences of Unicode scalar
\* values: "en", "a" followed by U+10348 (outside the BMP), and "".
Locales == << <<101, 110>>, <<97, 66376>>, <<>> >>

\* The Analysis Policy (trait TextAnalysisSourceMethods): policy p's answer
\* for a position, a pair <<locale, run length>>, distinct for distinct
\* positions, and its paragraph direction.
get_locale_name(p, text_position) ==
    << Locales[((text_position + p) % 3) + 1],
       (text_position + p) % (U32_MAX + 1) >>

get_paragraph_reading_direction(p) ==
    IF p % 2 = 1 THEN "LEFT_TO_RIGHT" ELSE "RIGHT_TO_LEFT"

\* ------------------------------------------------------------- helpers
S_OK == "S_OK"
E_INVALIDARG == "E_INVALIDARG"

\* `x as u32` of a usize, and u32 subtraction (wrapping, as in a release build).
AsU32(n) == n % (U32_MAX + 1)
U32Sub(a, b) == (a - b + (U32_MAX + 1)) % (U32_MAX + 1)

\* UTF-16 encoding of one scalar value.
EncodeUtf16(c) ==
    IF c < 65536 THEN << c >>
    ELSE << 55296 + ((c - 65536) \div 1024), 56320 + ((c - 65536) % 1024) >>

RECURSIVE EncodeWide(_)
EncodeWide(s) ==
    IF s = << >> THEN << >> ELSE EncodeUtf16(Head(s)) \o EncodeWide(Tail(s))

\* ToWide::to_wide_null: the UTF-16 code units of the string, then a 0.
to_wide_null(s) == EncodeWide(s) \o << 0 >>

\* Pointers handed to the engine.
NullPtr == [kind |-> "null", off |-> 0]
UnsetPtr == [kind |-> "unset", off |-> 0]
TextPtr(off) == [kind |-> "text", off |-> off]
BufPtr(a) == [kind |-> "heap", off |-> a]
NsPtr == [kind |-> "number_subst", off |-> 0]

\* The heap that holds locale buffers: address 0 is the dangling pointer of
\* an empty Vec (no allocation).
FreeCell == [live |-> FALSE, data |-> << >>]
EmptyHeap == [a \in Addrs |-> FreeCell]
FreeAddrs(h) == {a \in Addrs : ~h[a].live}
HeapStore(h, a, w) == [h EXCEPT ![a] = [live |-> TRUE, data |-> w]]
HeapFree(h, a) == IF a = 0 THEN h ELSE [h EXCEPT ![a] = FreeCell]

VARIABLES
    phase,        \* "none", "alive", "aborted" (construction panicked), "destroyed", "crashed"
    refcount,     \* _refcount
    inner,        \* the policy
    text,         \* the Text Buffer
    number_subst, \* the foreign reference count of the IDWriteNumberSubstitution
    locale_buf,   \* address of locale_buf's allocation, 0 while it is Vec::new()
    heap,
    call,         \* the last serialised query: [op, pos]
    ret,          \* its return value
    text_length,  \* the engine's out-parameters
    out_ptr,
    gns_ok,       \* history: GetNumberSubstitution calls made with position < length
    replaced,     \* history: what locale_buf held before the last GetLocaleName
    thr,          \* SpecRace: each thread's position in GetLocaleName and its locals
    raced,        \* SpecRace history: two calls have overlapped
    latest,       \* SpecRace history: the thread whose call returned last, 0 if none
    ub,           \* SpecRace: a buffer was freed twice
    held,         \* SpecRef: references each holder owns
    rel_pc,       \* SpecRef: "destroy" between Release's decrement to zero and the
                  \* destruction, "returned" once that Release has returned
    destroyed     \* SpecRef history: how many times the object was destroyed

obj == << phase, refcount, inner, text, number_subst, locale_buf, heap >>
outs == << call, ret, text_length, out_ptr, gns_ok, replaced >>
race == << thr, raced, latest, ub >>
refs == << held, rel_pc, destroyed >>
vars == << phase, refcount, inner, text, number_subst, locale_buf, heap,
           call, ret, text_length, out_ptr, gns_ok, replaced, thr, raced, latest, ub,
           held, rel_pc, destroyed >>

IdleThread ==
    [pc |-> "idle", pos |-> 0, locale |-> << >>, len |-> 0, newbuf |-> 0,
     text_length |-> 0, locale_name |-> UnsetPtr]

Init ==
    /\ phase = "none"
    /\ refcount = 0
    /\ inner = 0
    /\ text = << >>
    /\ number_subst = 0
    /\ locale_buf = 0
    /\ heap = EmptyHeap
    /\ call = [op |-> "none", pos |-> 0]
    /\ ret = "none"
    /\ text_length = 0
    /\ out_ptr = UnsetPtr
    /\ gns_ok = 0
    /\ replaced = << >>
    /\ thr = [t \in Threads |-> IdleThread]
    /\ raced = FALSE
    /\ latest = 0
    /\ ub = FALSE
    /\ held = [h \in Holders |-> 0]
    /\ rel_pc = [h \in Holders |-> "idle"]
    /\ destroyed = 0

\* ------------------------------------------------------------- construction
\* assert!(text.len() <= (std::u32::MAX as usize))
LengthFitsUnchecked(t) == TRUE
LengthFits(t) == Len(t) <= U32_MAX

\* _refcount: AtomicUsize::new(1)
InitialRefcountTwo == 1 + 1
InitialRefcount == 1

\* NumberSubstitution::new: the wrapper owns the one reference the factory returned.
InitialNsRefs == 1

from_text_and_number_subst_native(p, t) ==
    /\ phase = "none"
    /\ IF LengthFits(t)
       THEN /\ phase' = "alive"
            /\ refcount' = InitialRefcount
            /\ inner' = p
            /\ text' = t
            /\ number_subst' = InitialNsRefs
            /\ locale_buf' = 0
            /\ held' = [held EXCEPT ![1] = 1]
            /\ UNCHANGED heap
       ELSE /\ phase' = "aborted"
            /\ UNCHANGED << refcount, inner, text, number_subst, locale_buf, heap, held >>
    /\ UNCHANGED << outs, race, rel_pc, destroyed >>

Construct ==
    \E p \in Policies, n \in UsizeLens :
        from_text_and_number_subst_native(p, TextOf(n))

\* ------------------------------------------------------------- the queries
\* this.locale_buf = locale.as_ref().to_wide_null(): the buffer's new contents.
AppendLocaleBuf(old, locale) == old \o to_wide_null(locale)
AssignLocaleBuf(old, locale) == to_wide_null(locale)

BufData(h, a) == IF a = 0 THEN << >> ELSE h[a].data

\* A GetLocaleName that checks the position against the text, as
\* GetNumberSubstitution does.
GetLocaleNameChecked(text_position) ==
    /\ phase = "alive"
    /\ IF text_position >= AsU32(Len(text))
       THEN /\ ret' = E_INVALIDARG
            /\ UNCHANGED << locale_buf, heap, text_length, out_ptr >>
       ELSE /\ LET r == get_locale_name(inner, text_position)
                   w == AssignLocaleBuf(BufData(heap, locale_buf), r[1])
               IN  \E a \in FreeAddrs(heap) :
                      /\ heap' = HeapFree(HeapStore(heap, a, w), locale_buf)
                      /\ locale_buf' = a
                      /\ text_length' = r[2]
                      /\ out_ptr' = BufPtr(a)
            /\ ret' = S_OK
    /\ call' = [op |-> "GetLocaleName", pos |-> text_position]
    /\ replaced' = IF locale_buf' # locale_buf THEN BufData(heap, locale_buf) ELSE replaced
    /\ UNCHANGED << phase, refcount, inner, text, number_subst, gns_ok, race, refs >>

GetLocaleName(text_position) ==
    /\ phase = "alive"
    /\ LET r == get_locale_name(inner, text_position)
           w == AssignLocaleBuf(BufData(heap, locale_buf), r[1])
       IN  \E a \in FreeAddrs(heap) :
              /\ heap' = HeapFree(HeapStore(heap, a, w), locale_buf)
              /\ locale_buf' = a
              /\ text_length' = r[2]
              /\ out_ptr' = BufPtr(a)
    /\ ret' = S_OK
    /\ call' = [op |-> "GetLocaleName", pos |-> text_position]
    /\ replaced' = IF locale_buf' # locale_buf THEN BufData(heap, locale_buf) ELSE replaced
    /\ UNCHANGED << phase, refcount, inner, text, number_subst, gns_ok, race, refs >>

\* The outcome of GetNumberSubstitution: status, whether AddRef ran, outputs.
NumberSubstitutionResultOffByOne(t, text_position) ==
    IF text_position > AsU32(Len(t))
    THEN [hr |-> E_INVALIDARG, addref |-> FALSE, write |-> FALSE,
          ptr |-> NullPtr, len |-> 0]
    ELSE [hr |-> S_OK, addref |-> TRUE, write |-> TRUE,
          ptr |-> NsPtr, len |-> U32Sub(AsU32(Len(t)), text_position)]
NumberSubstitutionResultEagerAddRef(t, text_position) ==
    IF text_position >= AsU32(Len(t))
    THEN [hr |-> E_INVALIDARG, addref |-> TRUE, write |-> FALSE,
          ptr |-> NullPtr, len |-> 0]
    ELSE [hr |-> S_OK, addref |-> TRUE, write |-> TRUE,
          ptr |-> NsPtr, len |-> U32Sub(AsU32(Len(t)), text_position)]
NumberSubstitutionResult(t, text_position) ==
    IF text_position >= AsU32(Len(t))
    THEN [hr |-> E_INVALIDARG, addref |-> FALSE, write |-> FALSE,
          ptr |-> NullPtr, len |-> 0]
    ELSE [hr |-> S_OK, addref |-> TRUE, write |-> TRUE,
          ptr |-> NsPtr, len |-> U32Sub(AsU32(Len(t)), text_position)]

GetNumberSubstitution(text_position) ==
    /\ phase = "alive"
    /\ text_position < Len(text) => number_subst < MaxNsRefs
    /\ LET r == NumberSubstitutionResult(text, text_position)
       IN  /\ number_subst' = IF r.addref THEN number_subst + 1 ELSE number_subst
           /\ IF r.write
              THEN text_length' = r.len /\ out_ptr' = r.ptr
              ELSE UNCHANGED << text_length, out_ptr >>
           /\ ret' = r.hr
    /\ gns_ok' = IF text_position < Len(text) THEN gns_ok + 1 ELSE gns_ok
    /\ call' = [op |-> "GetNumberSubstitution", pos |-> text_position]
    /\ UNCHANGED << replaced, phase, refcount, inner, text, locale_buf, heap, race, refs >>

GetParagraphReadingDirection ==
    /\ phase = "alive"
    /\ ret' = get_paragraph_reading_direction(inner)
    /\ call' = [op |-> "GetParagraphReadingDirection", pos |-> 0]
    /\ UNCHANGED << obj, text_length, out_ptr, gns_ok, replaced, race, refs >>

TextAtPositionResultOffByOne(t, text_position) ==
    IF text_position > AsU32(Len(t))
    THEN [hr |-> S_OK, ptr |-> NullPtr, len |-> 0]
    ELSE [hr |-> S_OK, ptr |-> TextPtr(text_position),
          len |-> U32Sub(AsU32(Len(t)), text_position)]
TextAtPositionResult(t, text_position) ==
    IF text_position >= AsU32(Len(t))
    THEN [hr |-> S_OK, ptr |-> NullPtr, len |-> 0]
    ELSE [hr |-> S_OK, ptr |-> TextPtr(text_position),
          len |-> U32Sub(AsU32(Len(t)), text_position)]

GetTextAtPosition(text_position) ==
    /\ phase = "alive"
    /\ LET r == TextAtPositionResult(text, text_position)
       IN  /\ out_ptr' = r.ptr
           /\ text_length' = r.len
           /\ ret' = r.hr
    /\ call' = [op |-> "GetTextAtPosition", pos |-> text_position]
    /\ UNCHANGED << obj, gns_ok, replaced, race, refs >>

TextBeforePositionResultStrict(t, text_position) ==
    IF text_position = 0 \/ text_position >= AsU32(Len(t))
    THEN [hr |-> S_OK, ptr |-> NullPtr, len |-> 0]
    ELSE [hr |-> S_OK, ptr |-> TextPtr(0), len |-> text_position]
TextBeforePositionResult(t, text_position) ==
    IF text_position = 0 \/ text_position > AsU32(Len(t))
    THEN [hr |-> S_OK, ptr |-> NullPtr, len |-> 0]
    ELSE [hr |-> S_OK, ptr |-> TextPtr(0), len |-> text_position]

\* A GetTextBeforePosition that cuts the text down to the prefix it returns.
GetTextBeforePositionTruncating(text_position) ==
    /\ phase = "alive"
    /\ LET r == TextBeforePositionResult(text, text_position)
       IN  /\ out_ptr' = r.ptr
           /\ text_length' = r.len
           /\ ret' = r.hr
           /\ text' = SubSeq(text, 1, r.len)
    /\ call' = [op |-> "GetTextBeforePosition", pos |-> text_position]
    /\ UNCHANGED << phase, refcount, inner, number_subst, locale_buf, heap,
                    gns_ok, replaced, race, refs >>

GetTextBeforePosition(text_position) ==
    /\ phase = "alive"
    /\ LET r == TextBeforePositionResult(text, text_position)
       IN  /\ out_ptr' = r.ptr
           /\ text_length' = r.len
           /\ ret' = r.hr
    /\ call' = [op |-> "GetTextBeforePosition", pos |-> text_position]
    /\ UNCHANGED << obj, gns_ok, replaced, race, refs >>

Next ==
    \/ Construct
    \/ \E p \in UINT32 : GetLocaleName(p)
    \/ \E p \in UINT32 : GetNumberSubstitution(p)
    \/ GetParagraphReadingDirection
    \/ \E p \in UINT32 : GetTextAtPosition(p)
    \/ \E p \in UINT32 : GetTextBeforePosition(p)

Spec == Init /\ [][Next]_vars

\* ------------------------------------------------------------- two threads
\* GetLocaleName run by two engine threads on the same source, split where
\* it reads or writes this.locale_buf. There is no lock in the callback, so
\* the steps of the two calls interleave freely.
\* GetLocaleName never reads the text, so one text serves; the two positions
\* get different locales from either policy.
RaceText == TextOf(1)
RacePositions == {0, 1}
Mid == {"drop", "write", "return"}
OthersMid(t) == \E u \in Threads \ {t} : thr[u].pc \in Mid

\* Lines 120-123, right-hand side: the policy is asked and the new Vec is
\* built (its allocation is fresh: the old buffer is still allocated).
LocaleBegin(t, text_position) ==
    /\ phase = "alive"
    /\ thr[t].pc \in {"idle", "done"}
    /\ LET r == get_locale_name(inner, text_position)
       IN  \E a \in FreeAddrs(heap) :
              /\ heap' = HeapStore(heap, a, to_wide_null(r[1]))
              /\ thr' = [thr EXCEPT ![t] =
                           [pc |-> "drop", pos |-> text_position, locale |-> r[1],
                            len |-> r[2], newbuf |-> a, text_length |-> 0,
                            locale_name |-> UnsetPtr]]
    /\ raced' = (raced \/ OthersMid(t))
    /\ UNCHANGED << phase, refcount, inner, text, number_subst, locale_buf, ub, latest,
                    outs, refs >>

\* Line 123, the assignment drops the Vec the field holds: its allocation is
\* freed. Freeing an allocation that is already free is undefined behaviour:
\* the allocator either lets it pass or the process dies.
LocaleDropOld(t) ==
    /\ phase = "alive"
    /\ thr[t].pc = "drop"
    /\ IF locale_buf # 0 /\ ~heap[locale_buf].live
       THEN /\ ub' = TRUE
            /\ \E dies \in BOOLEAN : phase' = IF dies THEN "crashed" ELSE phase
            /\ UNCHANGED heap
       ELSE /\ heap' = HeapFree(heap, locale_buf)
            /\ UNCHANGED << ub, phase >>
    /\ thr' = [thr EXCEPT ![t].pc = "write"]
    /\ raced' = (raced \/ OthersMid(t))
    /\ UNCHANGED << refcount, inner, text, number_subst, locale_buf, latest, outs, refs >>

\* Line 123, the assignment then moves the new Vec into the field.
LocaleStoreSkipped(t) ==
    /\ phase = "alive"
    /\ thr[t].pc = "write"
    /\ thr' = [thr EXCEPT ![t].pc = "return", ![t].newbuf = 0]
    /\ raced' = (raced \/ OthersMid(t))
    /\ UNCHANGED << obj, ub, latest, outs, refs >>
LocaleStore(t) ==
    /\ phase = "alive"
    /\ thr[t].pc = "write"
    /\ locale_buf' = thr[t].newbuf
    /\ thr' = [thr EXCEPT ![t].pc = "return", ![t].newbuf = 0]
    /\ raced' = (raced \/ OthersMid(t))
    /\ UNCHANGED << phase, refcount, inner, text, number_subst, heap, ub, latest,
                    outs, refs >>

\* Lines 124-126: the outputs are written, the pointer read from the field.
LocaleReturn(t) ==
    /\ phase = "alive"
    /\ thr[t].pc = "return"
    /\ thr' = [thr EXCEPT ![t].pc = "done",
                          ![t].text_length = thr[t].len,
                          ![t].locale_name = BufPtr(locale_buf)]
    /\ raced' = (raced \/ OthersMid(t))
    /\ latest' = t
    /\ UNCHANGED << obj, ub, outs, refs >>

NextRace ==
    \/ \E p \in Policies : from_text_and_number_subst_native(p, RaceText)
    \/ \E t \in Threads, p \in RacePositions : LocaleBegin(t, p)
    \/ \E t \in Threads : LocaleDropOld(t)
    \/ \E t \in Threads : LocaleStore(t)
    \/ \E t \in Threads : LocaleReturn(t)

SpecRace == Init /\ [][NextRace]_vars

\* ------------------------------------------------------------- references
\* IUnknown's AddRef and Release on the source, as the reference count is
\* described: an atomic increment, an atomic decrement, and the destruction
\* by the holder whose decrement reached zero.
Sum(f) == LET RECURSIVE S(_)
              S(D) == IF D = {} THEN 0
                      ELSE LET h == CHOOSE x \in D : TRUE IN f[h] + S(D \ {h})
          IN  S(DOMAIN f)

\* Holder h, owning a reference, takes one more for holder g.
AddRef(h, g) ==
    /\ phase = "alive"
    /\ held[h] > 0
    /\ refcount < MaxRefs
    /\ refcount' = refcount + 1
    /\ held' = [held EXCEPT ![g] = held[g] + 1]
    /\ UNCHANGED << phase, inner, text, number_subst, locale_buf, heap, outs, race,
                    rel_pc, destroyed >>

\* Release, the atomic decrement.
ReleaseDecrement(h) ==
    /\ phase = "alive"
    /\ held[h] > 0
    /\ rel_pc[h] = "idle"
    /\ refcount' = refcount - 1
    /\ held' = [held EXCEPT ![h] = held[h] - 1]
    /\ rel_pc' = [rel_pc EXCEPT ![h] = IF refcount' = 0 THEN "destroy" ELSE "idle"]
    /\ UNCHANGED << phase, inner, text, number_subst, locale_buf, heap, outs, race,
                    destroyed >>

\* Release, after a decrement to zero: the fields are dropped, the number
\* substitution wrapper giving up its reference.
ReleaseDestroy(h) ==
    /\ rel_pc[h] = "destroy"
    /\ phase' = "destroyed"
    /\ destroyed' = destroyed + 1
    /\ number_subst' = number_subst - 1
    /\ heap' = HeapFree(heap, locale_buf)
    /\ rel_pc' = [rel_pc EXCEPT ![h] = "returned"]
    /\ UNCHANGED << refcount, inner, text, locale_buf, outs, race, held >>

NextRef ==
    \/ Construct
    \/ \E h \in Holders, g \in Holders : AddRef(h, g)
    \/ \E h \in Holders : ReleaseDecrement(h)
    \/ \E h \in Holders : ReleaseDestroy(h)

SpecRef == Init /\ [][NextRef]_vars

\* ------------------------------------------------------------- properties
\* What the engine reads through a pointer into the Text Buffer and a length.
Slice(ptr, n) == SubSeq(text, ptr.off + 1, ptr.off + n)
Suffix(t, p) == [i \in 1 .. (Len(t) - p) |-> t[p + i]]
Prefix(t, p) == [i \in 1 .. p |-> t[i]]

\* The null-terminated string the engine reads at a wide-character buffer,
\* and the scalar values it decodes to.
RECURSIVE CStr(_)
CStr(w) == IF w = << >> \/ Head(w) = 0 THEN << >> ELSE << Head(w) >> \o CStr(Tail(w))

RECURSIVE DecodeWide(_)
DecodeWide(w) ==
    IF w = << >> THEN << >>
    ELSE IF Head(w) >= 55296 /\ Head(w) < 56320 /\ Len(w) >= 2
         THEN << 65536 + ((Head(w) - 55296) * 1024) + (w[2] - 56320) >>
              \o DecodeWide(Tail(Tail(w)))
         ELSE << Head(w) >> \o DecodeWide(Tail(w))

\* C1: GetTextAtPosition can be called with every position and returns
\* S_OK; for p < length it returns the non-null pointer to the text at
\* offset p and length - p, the slice being the text's suffix from p; for
\* p >= length it returns null and 0.
C1_GetTextAtPosition ==
    /\ phase = "alive" => \A p \in UINT32 : ENABLED GetTextAtPosition(p)
    /\ call.op = "GetTextAtPosition" =>
          /\ ret = S_OK
          /\ call.pos < Len(text) =>
                /\ out_ptr.kind = "text"
                /\ out_ptr.off = call.pos
                /\ text_length = Len(text) - call.pos
                /\ Slice(out_ptr, text_length) = Suffix(text, call.pos)
          /\ call.pos >= Len(text) => out_ptr = NullPtr /\ text_length = 0

C1_Witness ==
    /\ call.op = "GetTextAtPosition"
    /\ 0 < call.pos /\ call.pos < Len(text)
    /\ Slice(out_ptr, text_length) = Suffix(text, call.pos)
    /\ text_length >= 2

\* C2: GetTextBeforePosition can be called with every position and returns
\* S_OK; for 0 < p <= length it returns the pointer to the start of the
\* text and p (the prefix of length p, the whole text for p = length); for
\* p = 0 and for p > length it returns null and 0.
C2_GetTextBeforePosition ==
    /\ phase = "alive" => \A p \in UINT32 : ENABLED GetTextBeforePosition(p)
    /\ call.op = "GetTextBeforePosition" =>
          /\ ret = S_OK
          /\ (0 < call.pos /\ call.pos <= Len(text)) =>
                /\ out_ptr.kind = "text"
                /\ out_ptr.off = 0
                /\ text_length = call.pos
                /\ Slice(out_ptr, text_length) = Prefix(text, call.pos)
                /\ call.pos = Len(text) => Slice(out_ptr, text_length) = text
          /\ (call.pos = 0 \/ call.pos > Len(text)) =>
                out_ptr = NullPtr /\ text_length = 0

C2_Witness ==
    /\ call.op = "GetTextBeforePosition"
    /\ call.pos = Len(text) /\ Len(text) >= 2
    /\ out_ptr = TextPtr(0) /\ text_length = Len(text)

\* C3: GetNumberSubstitution(p) returns E_INVALIDARG for every p >= length;
\* for p < length it returns S_OK, the non-null pointer to the source's
\* number substitution and length - p, and the step adds one to that
\* object's reference count.
C3_State ==
    call.op = "GetNumberSubstitution" =>
        /\ call.pos >= Len(text) => ret = E_INVALIDARG
        /\ call.pos < Len(text) =>
              /\ ret = S_OK
              /\ out_ptr = NsPtr /\ out_ptr # NullPtr
              /\ text_length = Len(text) - call.pos

C3_Step ==
    \A p \in UINT32 :
        (GetNumberSubstitution(p) /\ p < Len(text)) => number_subst' = number_subst + 1

\* C3: the state part holds always and every step obeys the step part.
C3_GetNumberSubstitution == [] C3_State /\ [][C3_Step]_vars

C3_Witness ==
    /\ call.op = "GetNumberSubstitution"
    /\ 0 < call.pos /\ call.pos < Len(text)
    /\ ret = S_OK /\ out_ptr = NsPtr
    /\ number_subst = InitialNsRefs + 1

\* C5: after a GetLocaleName call the returned pointer is the address of
\* locale_buf, the only live buffer, which holds exactly the wide encoding
\* of the locale the policy returned for that call's position followed by a
\* 0 (the engine reads back that locale and nothing else), and the run
\* length returned is the policy's.
C5_LocaleBufOverwritten ==
    /\ Cardinality({a \in Addrs : heap[a].live}) <= 1
    /\ call.op = "GetLocaleName" =>
          LET r == get_locale_name(inner, call.pos)
          IN  /\ out_ptr = BufPtr(locale_buf)
              /\ heap[out_ptr.off].live
              /\ heap[out_ptr.off].data = to_wide_null(r[1])
              /\ DecodeWide(CStr(heap[out_ptr.off].data)) = r[1]
              /\ text_length = r[2]

C5_Witness ==
    /\ call.op = "GetLocaleName"
    /\ Len(replaced) > Len(heap[locale_buf].data)
    /\ Len(heap[locale_buf].data) > 1
    /\ heap[locale_buf].data = to_wide_null(get_locale_name(inner, call.pos)[1])

\* C6: E_INVALIDARG is returned only by GetNumberSubstitution with
\* position >= length; GetLocaleName, GetTextAtPosition and
\* GetTextBeforePosition can be called with every position and return S_OK,
\* GetLocaleName answering with the policy's result for the very position it
\* was given, also beyond the end of the text; GetParagraphReadingDirection
\* returns the policy's direction.
C6_OnlyFailure ==
    /\ phase = "alive" =>
          /\ \A p \in UINT32 : ENABLED GetLocaleName(p)
          /\ ENABLED GetParagraphReadingDirection
    /\ ret = E_INVALIDARG =>
          call.op = "GetNumberSubstitution" /\ call.pos >= Len(text)
    /\ call.op \in {"GetLocaleName", "GetTextAtPosition", "GetTextBeforePosition"} =>
          ret = S_OK
    /\ call.op = "GetLocaleName" =>
          /\ text_length = get_locale_name(inner, call.pos)[2]
          /\ CStr(heap[locale_buf].data) = EncodeWide(get_locale_name(inner, call.pos)[1])
    /\ call.op = "GetParagraphReadingDirection" =>
          ret = get_paragraph_reading_direction(inner)
    /\ ret \in {"none", S_OK, E_INVALIDARG, "LEFT_TO_RIGHT", "RIGHT_TO_LEFT"}

C6_Witness ==
    /\ call.op = "GetLocaleName"
    /\ call.pos > Len(text)
    /\ ret = S_OK
    /\ text_length = get_locale_name(inner, call.pos)[2]

\* C7: no step changes the text or the policy of a live source; a step that
\* changes locale_buf or the heap is a GetLocaleName; GetTextAtPosition,
\* GetTextBeforePosition and GetParagraphReadingDirection leave every field
\* of the source as it was.
C7_Step ==
    /\ phase = "alive" => (text' = text /\ inner' = inner)
    /\ (locale_buf' # locale_buf \/ heap' # heap) => \E p \in UINT32 : GetLocaleName(p)
    /\ \A p \in UINT32 : GetTextAtPosition(p) => UNCHANGED obj
    /\ \A p \in UINT32 : GetTextBeforePosition(p) => UNCHANGED obj
    /\ GetParagraphReadingDirection => UNCHANGED obj

\* C7: every step obeys the frame.
C7_Frame == [][C7_Step]_vars

C7_Witness ==
    /\ call.op = "GetTextBeforePosition"
    /\ 0 < call.pos /\ call.pos < Len(text)
    /\ locale_buf # 0
    /\ number_subst > InitialNsRefs

\* C9: a construction with a text longer than U32_MAX aborts and leaves no
\* source; every live source's text length is at most U32_MAX; the lengths
\* GetTextAtPosition and GetNumberSubstitution return are length - p as
\* integers, those of GetTextBeforePosition p, and all lie in 0 .. length.
C9_State ==
    /\ phase = "alive" => Len(text) <= U32_MAX /\ AsU32(Len(text)) = Len(text)
    /\ (call.op \in {"GetTextAtPosition", "GetNumberSubstitution"}
          /\ ret = S_OK /\ out_ptr # NullPtr) =>
          /\ text_length = Len(text) - call.pos
          /\ 0 <= text_length /\ text_length <= Len(text)
    /\ call.op \in {"GetTextAtPosition", "GetTextBeforePosition"} =>
          /\ 0 <= text_length /\ text_length <= Len(text)
          /\ (out_ptr # NullPtr /\ call.op = "GetTextBeforePosition") =>
                text_length = call.pos

C9_Step ==
    \A p \in Policies, n \in UsizeLens :
        (from_text_and_number_subst_native(p, TextOf(n)) /\ n > U32_MAX) =>
            (phase' = "aborted" /\ text' = << >>)

\* C9: the state part holds always and every construction step obeys the step part.
C9_LengthFits == [] C9_State /\ [][C9_Step]_vars

C9_Witness ==
    /\ phase = "alive" /\ Len(text) = U32_MAX
    /\ call = [op |-> "GetTextAtPosition", pos |-> 0]
    /\ text_length = U32_MAX

\* C10: the number substitution's reference count is its count at
\* construction plus the number of GetNumberSubstitution calls made with
\* position < length; a GetNumberSubstitution call with position >= length
\* leaves the count and both output parameters as they were, and no other
\* query changes the count.
C10_State == phase = "alive" => number_subst = InitialNsRefs + gns_ok

C10_Step ==
    /\ \A p \in UINT32 :
          (GetNumberSubstitution(p) /\ p >= Len(text)) =>
              (ret' = E_INVALIDARG /\ UNCHANGED << number_subst, text_length, out_ptr >>)
    /\ number_subst' # number_subst =>
          \/ phase = "none"
          \/ \E p \in UINT32 : GetNumberSubstitution(p) /\ p < Len(text)

\* C10: the state part holds always and every step obeys the step part.
C10_NumberSubstRefs == [] C10_State /\ [][C10_Step]_vars

C10_Witness ==
    /\ call.op = "GetNumberSubstitution"
    /\ ret = E_INVALIDARG
    /\ gns_ok >= 2
    /\ number_subst = InitialNsRefs + 2
    /\ out_ptr.kind = "heap"

\* C4: the source is created with reference count 1; while references are
\* outstanding the count is their number and the object is alive; once
\* every reference taken has been released (by whichever holders, in any
\* interleaving) the count is zero and the object has been destroyed, by
\* the holder whose Release reached zero, exactly once.
Pending == \E h \in Holders : rel_pc[h] = "destroy"

C4_RefCount ==
    /\ destroyed <= 1
    /\ (destroyed = 1) <=> (phase = "destroyed")
    /\ (phase = "alive" /\ ~Pending) => (refcount = Sum(held) /\ refcount >= 1)
    /\ \A h \in Holders : held[h] > 0 => (phase = "alive" /\ ~Pending)
    /\ (phase \in {"alive", "destroyed"} /\ Sum(held) = 0) =>
          /\ refcount = 0
          /\ Pending \/ phase = "destroyed"
          /\ Cardinality({h \in Holders : rel_pc[h] \in {"destroy", "returned"}}) = 1
    /\ phase = "destroyed" => number_subst = InitialNsRefs - 1

C4_Witness ==
    /\ phase = "destroyed"
    /\ destroyed = 1
    /\ rel_pc[2] = "returned"
    /\ refcount = 0
    /\ Sum(held) = 0

\* C8: as long as no two GetLocaleName calls have overlapped, the pointer
\* the latest call returned (until the next call starts) is the live
\* locale_buf holding that call's own locale, and no buffer is freed twice;
\* once two calls overlap, a call can return a pointer to a buffer that
\* holds the other call's locale.
Quiet == \A t \in Threads : thr[t].pc \notin Mid

C8_SerialisedOnly ==
    ~raced =>
        /\ ~ub /\ phase # "crashed"
        /\ (Quiet /\ latest # 0) =>
              LET me == thr[latest]
              IN  /\ me.pc = "done"
                  /\ me.locale_name.kind = "heap"
                  /\ me.locale_name.off \in Addrs
                  /\ me.locale_name.off = locale_buf
                  /\ heap[me.locale_name.off].live
                  /\ heap[me.locale_name.off].data = to_wide_null(me.locale)
                  /\ me.text_length = me.len

C8_Witness ==
    /\ raced
    /\ \E t \in Threads : \E u \in Threads \ {t} :
          /\ thr[t].pc = "done" /\ thr[u].pc = "done"
          /\ latest = t
          /\ thr[t].locale_name.off \in Addrs
          /\ heap[thr[t].locale_name.off].live
          /\ heap[thr[t].locale_name.off].data = to_wide_null(thr[u].locale)
          /\ thr[u].locale # thr[t].locale

\* A racing call can also return a pointer to a buffer that is already freed.
C8_DanglingReached ==
    \E t \in Threads :
        /\ thr[t].pc = "done" /\ latest = t /\ Quiet
        /\ thr[t].locale_name.off \in Addrs
        /\ ~heap[thr[t].locale_name.off].live

====
